---- MODULE Spec2Model ----
(***************************************************************************)
(* The upstream-synchronisation state machine of the koharu CLI:           *)
(* the update reducer, the per-status effects, the git operations they     *)
(* issue and the UpdateApp component that drives them.                     *)
(*                                                                         *)
(* Two specifications share the variables:                                 *)
(*   Spec         one UpdateApp session, from createInitialState to the    *)
(*                call of onComplete;                                      *)
(*   SpecReducer  updateReducer as a pure function, applied to every       *)
(*                state and every action of bounded sets.                  *)
(***************************************************************************)
EXTENDS Integers, Sequences, FiniteSets, TLC

VARIABLES
    state,          \* the UpdateState held by useReducer
    before,         \* the UpdateState the last dispatched action was applied to
    dispatched,     \* the last action handed to updateReducer
    repo,           \* the git repository: remote, tracking ref, branch, work tree
    calls,          \* the operations issued so far, in order
    effectPending,  \* the state object changed and the effects have not run yet
    install,        \* the dependency install: none, running, succeeded, failed
    completed,      \* onComplete has been called
    exitTimer,      \* handleComplete has armed the exit timer
    props,          \* the props UpdateApp was mounted with
    path,           \* the statuses the session went through, in order
    effects,        \* the status effects invoked so far and the events of each
    called,         \* the operation called on its own, with its arguments
    returned        \* what that call returned

vars == <<state, before, dispatched, repo, calls, effectPending, install,
          completed, exitTimer, props, path, effects, called, returned>>

opVars == <<called, returned>>

-----------------------------------------------------------------------------
(* Bounds of the model *)

MaxFiles == 1
MaxCommits == 1

-----------------------------------------------------------------------------
(* constants/update *)

UPSTREAM_REMOTE == "upstream"

UPSTREAM_URL == <<"https://", "github.com", "/cosZone/astro-koharu", ".git">>

MAIN_BRANCH == "main"

\* null, and the absent optional field
Null == [isNull |-> TRUE]

UpdateStatus ==
    {"checking", "dirty-warning", "backup-confirm", "backing-up", "fetching",
     "preview", "merging", "installing", "done", "conflict", "up-to-date",
     "error"}

TerminalStatus == {"dirty-warning", "done", "conflict", "up-to-date", "error"}

ActionTypes ==
    {"GIT_CHECKED", "FETCHED", "BACKUP_CONFIRM", "BACKUP_SKIP", "BACKUP_DONE",
     "UPDATE_CONFIRM", "MERGED", "INSTALLED", "ERROR"}

\* a tag is the sequence of the pieces of its text; no tag is the empty one
NoTag == <<>>

TargetTags == {NoTag, <<"1.0.0">>}

UpdateOptions ==
    [checkOnly : BOOLEAN, skipBackup : BOOLEAN, force : BOOLEAN,
     targetTag : TargetTags, rebase : BOOLEAN, dryRun : BOOLEAN]

NoAction == [type |-> "NONE"]

NoCall == [op |-> "none"]

-----------------------------------------------------------------------------
(* update-reducer *)

createInitialState(options) ==
    [status |-> "checking", gitStatus |-> Null, updateInfo |-> Null,
     mergeResult |-> Null, backupFile |-> "", error |-> "",
     branchWarning |-> "", options |-> options]

\* the ERROR branch, taken before the switch on status
reduceError(s, action) ==
    [s EXCEPT !.status = "error", !.error = action.error]

branchWarningText(currentBranch) ==
    IF currentBranch # MAIN_BRANCH
    THEN "on branch " \o currentBranch \o ", updating on " \o MAIN_BRANCH
         \o " is recommended"
    ELSE ""

caseCheckingBranchIsError(s, action) ==
    IF action.type # "GIT_CHECKED" THEN s
    ELSE IF action.payload.currentBranch # MAIN_BRANCH
    THEN [s EXCEPT !.status = "error",
                   !.error = "only " \o MAIN_BRANCH \o " is supported, on "
                             \o action.payload.currentBranch]
    ELSE IF ~action.payload.isClean /\ ~s.options.force
    THEN [s EXCEPT !.status = "dirty-warning", !.gitStatus = action.payload]
    ELSE [s EXCEPT !.status = "fetching", !.gitStatus = action.payload]

caseCheckingIgnoresForce(s, action) ==
    IF action.type # "GIT_CHECKED" THEN s
    ELSE IF ~action.payload.isClean
    THEN [s EXCEPT !.status = "dirty-warning", !.gitStatus = action.payload,
                   !.branchWarning = branchWarningText(action.payload.currentBranch)]
    ELSE [s EXCEPT !.status = "fetching", !.gitStatus = action.payload,
                   !.branchWarning = branchWarningText(action.payload.currentBranch)]

caseCheckingWarnsWithoutStatus(s, action) ==
    IF action.type # "GIT_CHECKED" THEN s
    ELSE LET gitStatus == action.payload
             branchWarning == branchWarningText(gitStatus.currentBranch)
         IN IF ~gitStatus.isClean /\ ~s.options.force
            THEN [s EXCEPT !.status = "dirty-warning",
                           !.branchWarning = branchWarning]
            ELSE [s EXCEPT !.status = "fetching", !.gitStatus = gitStatus,
                           !.branchWarning = branchWarning]

caseChecking(s, action) ==
    IF action.type # "GIT_CHECKED" THEN s
    ELSE LET gitStatus == action.payload
             branchWarning == branchWarningText(gitStatus.currentBranch)
         IN IF ~gitStatus.isClean /\ ~s.options.force
            THEN [s EXCEPT !.status = "dirty-warning", !.gitStatus = gitStatus,
                           !.branchWarning = branchWarning]
            ELSE [s EXCEPT !.status = "fetching", !.gitStatus = gitStatus,
                           !.branchWarning = branchWarning]

versionsMatch(updateInfo) ==
    /\ updateInfo.currentVersion = updateInfo.latestVersion
    /\ updateInfo.latestVersion # "unknown"

hasChangesBehindOnly(updateInfo) == updateInfo.behindCount > 0

hasChanges(updateInfo) ==
    /\ ~versionsMatch(updateInfo)
    /\ \/ updateInfo.behindCount > 0
       \/ (updateInfo.isDowngrade /\ updateInfo.aheadCount > 0)

caseFetchingRebaseSkipsBackup(s, action) ==
    IF action.type # "FETCHED" THEN s
    ELSE IF ~hasChanges(action.payload)
    THEN [s EXCEPT !.status = "up-to-date", !.updateInfo = action.payload]
    ELSE [s EXCEPT !.status = IF s.options.skipBackup \/ s.options.force
                              THEN "preview" ELSE "backup-confirm",
                   !.updateInfo = action.payload]

caseFetchingAlwaysAsksBackup(s, action) ==
    IF action.type # "FETCHED" THEN s
    ELSE IF ~hasChanges(action.payload)
    THEN [s EXCEPT !.status = "up-to-date", !.updateInfo = action.payload]
    ELSE [s EXCEPT !.status = "backup-confirm", !.updateInfo = action.payload]

caseFetching(s, action) ==
    IF action.type # "FETCHED" THEN s
    ELSE LET updateInfo == action.payload
         IN IF ~hasChanges(updateInfo)
            THEN [s EXCEPT !.status = "up-to-date", !.updateInfo = updateInfo]
            ELSE LET nextStatus ==
                         IF s.options.rebase THEN "backup-confirm"
                         ELSE IF s.options.skipBackup \/ s.options.force
                         THEN "preview"
                         ELSE "backup-confirm"
                 IN [s EXCEPT !.status = nextStatus, !.updateInfo = updateInfo]

caseBackupConfirm(s, action) ==
    IF action.type = "BACKUP_CONFIRM" THEN [s EXCEPT !.status = "backing-up"]
    ELSE IF action.type = "BACKUP_SKIP" THEN [s EXCEPT !.status = "preview"]
    ELSE s

caseBackingUp(s, action) ==
    IF action.type = "BACKUP_DONE"
    THEN [s EXCEPT !.status = "preview", !.backupFile = action.backupFile]
    ELSE s

casePreview(s, action) ==
    IF action.type = "UPDATE_CONFIRM" THEN [s EXCEPT !.status = "merging"]
    ELSE s

\* result.error || 'merge failed'
errorOrDefault(result) ==
    IF "error" \in DOMAIN result /\ result.error # "" THEN result.error
    ELSE "merge failed"

caseMergingSuccessFirst(s, action) ==
    IF action.type # "MERGED" THEN s
    ELSE IF ~action.payload.success
    THEN [s EXCEPT !.status = "error", !.error = errorOrDefault(action.payload)]
    ELSE IF action.payload.hasConflict
    THEN [s EXCEPT !.status = "conflict", !.mergeResult = action.payload]
    ELSE [s EXCEPT !.status = "installing", !.mergeResult = action.payload]

caseMergingRetriesFailure(s, action) ==
    IF action.type # "MERGED" THEN s
    ELSE LET result == action.payload
         IN IF result.hasConflict
            THEN [s EXCEPT !.status = "conflict", !.mergeResult = result]
            ELSE IF ~result.success
            THEN [s EXCEPT !.mergeResult = result]
            ELSE [s EXCEPT !.status = "installing", !.mergeResult = result]

caseMerging(s, action) ==
    IF action.type # "MERGED" THEN s
    ELSE LET result == action.payload
         IN IF result.hasConflict
            THEN [s EXCEPT !.status = "conflict", !.mergeResult = result]
            ELSE IF ~result.success
            THEN [s EXCEPT !.status = "error", !.error = errorOrDefault(result)]
            ELSE [s EXCEPT !.status = "installing", !.mergeResult = result]

caseInstallingIgnoresInstalled(s, action) == s

caseInstallingAnyAction(s, action) ==
    [s EXCEPT !.status = "done"]

caseInstalling(s, action) ==
    IF action.type = "INSTALLED" THEN [s EXCEPT !.status = "done"] ELSE s

switchStatusConflictMergesAgain(s, action) ==
    CASE s.status = "checking" -> caseChecking(s, action)
      [] s.status = "fetching" -> caseFetching(s, action)
      [] s.status = "backup-confirm" -> caseBackupConfirm(s, action)
      [] s.status = "backing-up" -> caseBackingUp(s, action)
      [] s.status = "preview" -> casePreview(s, action)
      [] s.status \in {"merging", "conflict"} -> caseMerging(s, action)
      [] s.status = "installing" -> caseInstalling(s, action)
      [] OTHER -> s

\* the switch on status
switchStatus(s, action) ==
    CASE s.status = "checking" -> caseChecking(s, action)
      [] s.status = "fetching" -> caseFetching(s, action)
      [] s.status = "backup-confirm" -> caseBackupConfirm(s, action)
      [] s.status = "backing-up" -> caseBackingUp(s, action)
      [] s.status = "preview" -> casePreview(s, action)
      [] s.status = "merging" -> caseMerging(s, action)
      [] s.status = "installing" -> caseInstalling(s, action)
      [] s.status \in TerminalStatus -> s
      [] OTHER -> s

updateReducerSwitchFirst(s, action) ==
    IF s.status \in TerminalStatus THEN s
    ELSE IF action.type = "ERROR" THEN reduceError(s, action)
    ELSE switchStatus(s, action)

updateReducer(s, action) ==
    IF action.type = "ERROR" THEN reduceError(s, action)
    ELSE switchStatus(s, action)

-----------------------------------------------------------------------------
(* update-operations: each operation is given what git answers and returns   *)
(* its result, the repository it leaves and the commands it issued.          *)

RECURSIVE Concat(_)
Concat(pieces) ==
    IF pieces = <<>> THEN "" ELSE Head(pieces) \o Concat(Tail(pieces))

RECURSIVE Dedupe(_)
\* Array.from(new Set(xs)): the first occurrence of each element, in order
Dedupe(xs) ==
    IF xs = <<>> THEN <<>>
    ELSE LET front == Dedupe(SubSeq(xs, 1, Len(xs) - 1))
             last == xs[Len(xs)]
         IN IF \E i \in 1..Len(front) : front[i] = last
            THEN front ELSE Append(front, last)

Schemes == {"http://", "https://", "ssh://"}

UserInfos == {"git@", "user:token@"}

\* text.replace(/\.git$/, '')
stripDotGit(pieces) ==
    IF pieces # <<>> /\ pieces[Len(pieces)] = ".git"
    THEN SubSeq(pieces, 1, Len(pieces) - 1) ELSE pieces

normalizeRemoteUrl(url) ==
    IF url # <<>> /\ Head(url) \in Schemes
    THEN \* new URL(url): hostname + pathname, the user info left out
         LET rest == Tail(url)
             hostAndPath == IF rest # <<>> /\ Head(rest) \in UserInfos
                            THEN Tail(rest) ELSE rest
         IN Concat(stripDotGit(hostAndPath))
    ELSE IF Len(url) >= 4 /\ url[1] \in UserInfos /\ url[3] = ":"
    THEN \* user@host:path
         url[2] \o Concat(stripDotGit(SubSeq(url, 4, Len(url))))
    ELSE Concat(stripDotGit(url))

\* git status --porcelain: one line per file, a two-letter code and the path
PorcelainLine(xy, file) == [xy |-> xy, path |-> file]

checkGitStatus(r) ==
    LET uncommittedFiles == r.porcelain
    IN [currentBranch |-> r.branch,
        isClean |-> Len(uncommittedFiles) = 0,
        uncommittedCount |-> Len(uncommittedFiles),
        uncommittedFiles |-> [i \in 1..Len(uncommittedFiles) |->
                                 uncommittedFiles[i].path]]

hasUpstreamRemote(r) == r.remote # <<>>

hasUpstreamTrackingRef(r) == r.trackingRef

getUpstreamRemoteUrl(r) == r.remote

addUpstreamRemote(r, ok) ==
    [ret |-> ok,
     repo |-> IF ok THEN [r EXCEPT !.remote = UPSTREAM_URL] ELSE r,
     calls |-> <<"remote add">>]

ensureUpstreamRemoteAlwaysAdds(r, allowAdd, addOk) ==
    LET currentUrl == getUpstreamRemoteUrl(r)
    IN IF currentUrl # <<>>
       THEN IF normalizeRemoteUrl(UPSTREAM_URL) # normalizeRemoteUrl(currentUrl)
            THEN [ret |-> [existed |-> TRUE, success |-> FALSE,
                           reason |-> "mismatch", currentUrl |-> currentUrl],
                  repo |-> r, calls |-> <<>>]
            ELSE [ret |-> [existed |-> TRUE, success |-> TRUE,
                           currentUrl |-> currentUrl],
                  repo |-> r, calls |-> <<>>]
       ELSE LET added == addUpstreamRemote(r, addOk)
            IN [ret |-> IF added.ret
                        THEN [existed |-> FALSE, success |-> TRUE]
                        ELSE [existed |-> FALSE, success |-> FALSE,
                              reason |-> "add-failed"],
                repo |-> added.repo, calls |-> added.calls]

ensureUpstreamRemoteRewritesMismatch(r, allowAdd, addOk) ==
    LET currentUrl == getUpstreamRemoteUrl(r)
    IN IF currentUrl # <<>>
          /\ normalizeRemoteUrl(UPSTREAM_URL) = normalizeRemoteUrl(currentUrl)
       THEN [ret |-> [existed |-> TRUE, success |-> TRUE,
                      currentUrl |-> currentUrl],
             repo |-> r, calls |-> <<>>]
       ELSE IF currentUrl = <<>> /\ ~allowAdd
       THEN [ret |-> [existed |-> FALSE, success |-> FALSE, reason |-> "missing"],
             repo |-> r, calls |-> <<>>]
       ELSE LET added == addUpstreamRemote(r, addOk)
            IN [ret |-> IF added.ret
                        THEN [existed |-> currentUrl # <<>>, success |-> TRUE]
                        ELSE [existed |-> currentUrl # <<>>, success |-> FALSE,
                              reason |-> "add-failed"],
                repo |-> added.repo, calls |-> added.calls]

ensureUpstreamRemote(r, allowAdd, addOk) ==
    LET currentUrl == getUpstreamRemoteUrl(r)
    IN IF currentUrl # <<>>
       THEN IF normalizeRemoteUrl(UPSTREAM_URL) # normalizeRemoteUrl(currentUrl)
            THEN [ret |-> [existed |-> TRUE, success |-> FALSE,
                           reason |-> "mismatch", currentUrl |-> currentUrl],
                  repo |-> r, calls |-> <<>>]
            ELSE [ret |-> [existed |-> TRUE, success |-> TRUE,
                           currentUrl |-> currentUrl],
                  repo |-> r, calls |-> <<>>]
       ELSE IF ~allowAdd
       THEN [ret |-> [existed |-> FALSE, success |-> FALSE, reason |-> "missing"],
             repo |-> r, calls |-> <<>>]
       ELSE LET added == addUpstreamRemote(r, addOk)
            IN [ret |-> IF added.ret
                        THEN [existed |-> FALSE, success |-> TRUE]
                        ELSE [existed |-> FALSE, success |-> FALSE,
                              reason |-> "add-failed"],
                repo |-> added.repo, calls |-> added.calls]

fetchUpstream(r, ok) ==
    [ret |-> ok,
     repo |-> IF ok THEN [r EXCEPT !.trackingRef = TRUE] ELSE r,
     calls |-> <<"fetch">>]

normalizeTag(tag) == IF Head(tag) = "v" THEN tag ELSE <<"v">> \o tag

\* git log A..B --no-merges, parsed: n commits of one side
parseCommits(side, n) == [i \in 1..n |-> [hash |-> i, side |-> side]]

\* the refs getUpdateInfo measures HEAD against
Refs == {"upstream/main", "tag"}

getUpdateInfoDowngradeWithoutTag(r, targetTag, git) ==
    IF ~hasUpstreamRemote(r)
    THEN [hasUpstream |-> FALSE, behindCount |-> 0, aheadCount |-> 0,
          commits |-> <<>>, localCommits |-> <<>>,
          currentVersion |-> git.localVersion, latestVersion |-> "unknown",
          isDowngrade |-> FALSE]
    ELSE LET targetRef == IF targetTag # NoTag THEN "tag" ELSE "upstream/main"
             aheadCount == git.revList[targetRef].ahead
             behindCount == git.revList[targetRef].behind
             isDowngrade == aheadCount > 0 /\ behindCount = 0
         IN [hasUpstream |-> TRUE, behindCount |-> behindCount,
             aheadCount |-> aheadCount,
             commits |-> IF isDowngrade THEN parseCommits("local", aheadCount)
                         ELSE parseCommits("target", behindCount),
             localCommits |-> parseCommits("local", aheadCount),
             currentVersion |-> git.localVersion,
             latestVersion |-> IF targetTag # NoTag
                               THEN Concat(Tail(normalizeTag(targetTag)))
                               ELSE IF git.targetVersion # ""
                               THEN git.targetVersion ELSE "unknown",
             isDowngrade |-> isDowngrade]

\* git answers: ahead and behind of HEAD...targetRef for each ref, the version of
\* the local manifest, and the version read from the manifest of upstream/main
\* ("" when it cannot be read or parsed)
getUpdateInfo(r, targetTag, git) ==
    IF ~hasUpstreamRemote(r)
    THEN [hasUpstream |-> FALSE, behindCount |-> 0, aheadCount |-> 0,
          commits |-> <<>>, localCommits |-> <<>>,
          currentVersion |-> git.localVersion, latestVersion |-> "unknown",
          isDowngrade |-> FALSE]
    ELSE LET normalizedTag == IF targetTag # NoTag THEN normalizeTag(targetTag)
                              ELSE NoTag
             targetRef == IF normalizedTag # NoTag THEN "tag" ELSE "upstream/main"
             aheadCount == git.revList[targetRef].ahead
             behindCount == git.revList[targetRef].behind
             isDowngrade == normalizedTag # NoTag /\ aheadCount > 0
                            /\ behindCount = 0
             commits == IF isDowngrade THEN parseCommits("local", aheadCount)
                        ELSE parseCommits("target", behindCount)
             localCommits == parseCommits("local", aheadCount)
             parsedVersion ==
                 IF normalizedTag # NoTag THEN Concat(Tail(normalizedTag))
                 ELSE IF git.targetVersion # "" THEN git.targetVersion
                 ELSE "unknown"
         IN [hasUpstream |-> TRUE, behindCount |-> behindCount,
             aheadCount |-> aheadCount, commits |-> commits,
             localCommits |-> localCommits,
             currentVersion |-> git.localVersion,
             latestVersion |-> parsedVersion, isDowngrade |-> isDowngrade]

getConflictFilesKeepsDuplicates(diffFiles, statusLines) ==
    IF Len(diffFiles) > 0 THEN diffFiles
    ELSE LET unmerged == SelectSeq(statusLines,
                 LAMBDA line : line.xy \in {"UU", "AU", "UA", "DU", "UD", "AA", "DD"})
         IN [i \in 1..Len(unmerged) |-> unmerged[i].path]

\* the unmerged paths of git diff --diff-filter=U, else those of the status codes
getConflictFiles(diffFiles, statusLines) ==
    IF Len(diffFiles) > 0 THEN Dedupe(diffFiles)
    ELSE LET unmerged == SelectSeq(statusLines,
                 LAMBDA line : line.xy \in {"UU", "AU", "UA", "DU", "UD", "AA", "DD"})
         IN Dedupe([i \in 1..Len(unmerged) |-> unmerged[i].path])

\* the message of the Error that git() throws
gitErrorMessage(stderr) ==
    IF stderr # "" THEN stderr ELSE "Command failed: git"

NoMergeOptions == [targetTag |-> NoTag, isDowngrade |-> FALSE, rebase |-> FALSE]

mergeUpstreamDowngradeScansConflicts(options, git) ==
    LET first == IF options.rebase THEN "rebase"
                 ELSE IF options.isDowngrade /\ options.targetTag # NoTag
                 THEN "checkout"
                 ELSE "merge --squash"
        commits == first # "rebase" /\ git.firstOk /\ git.changed
        thrown == ~git.firstOk \/ (commits /\ ~git.commitOk)
        conflictFiles == getConflictFiles(git.diffFiles, git.statusLines)
    IN [calls |-> IF commits THEN <<first, "commit">> ELSE <<first>>,
        ret |-> IF ~thrown
                THEN [success |-> TRUE, hasConflict |-> FALSE,
                      conflictFiles |-> <<>>]
                ELSE IF Len(conflictFiles) > 0
                THEN [success |-> FALSE, hasConflict |-> TRUE,
                      conflictFiles |-> conflictFiles,
                      isRebaseConflict |-> options.rebase]
                ELSE [success |-> FALSE, hasConflict |-> FALSE,
                      conflictFiles |-> <<>>,
                      error |-> gitErrorMessage(git.stderr)]]

\* git answers: whether the first command (rebase, checkout or merge) succeeds,
\* whether the work tree changed, whether the commit succeeds, and what the
\* conflict scans and stderr show after a failure
mergeUpstream(options, git) ==
    LET normalizedTag == IF options.targetTag # NoTag
                         THEN normalizeTag(options.targetTag) ELSE NoTag
        first == IF options.rebase THEN "rebase"
                 ELSE IF options.isDowngrade /\ normalizedTag # NoTag
                 THEN "checkout"
                 ELSE "merge --squash"
        commits == first # "rebase" /\ git.firstOk /\ git.changed
        issued == IF commits THEN <<first, "commit">> ELSE <<first>>
        thrown == ~git.firstOk \/ (commits /\ ~git.commitOk)
        conflictFiles == getConflictFiles(git.diffFiles, git.statusLines)
    IN [calls |-> issued,
        ret |-> IF ~thrown
                THEN [success |-> TRUE, hasConflict |-> FALSE,
                      conflictFiles |-> <<>>]
                ELSE IF options.isDowngrade
                THEN [success |-> FALSE, hasConflict |-> FALSE,
                      conflictFiles |-> <<>>,
                      error |-> gitErrorMessage(git.stderr)]
                ELSE IF Len(conflictFiles) > 0
                THEN [success |-> FALSE, hasConflict |-> TRUE,
                      conflictFiles |-> conflictFiles,
                      isRebaseConflict |-> options.rebase]
                ELSE [success |-> FALSE, hasConflict |-> FALSE,
                      conflictFiles |-> <<>>,
                      error |-> gitErrorMessage(git.stderr)]]

abortMerge(ok) == [ret |-> ok, calls |-> <<"merge --abort">>]

abortRebase(ok) == [ret |-> ok, calls |-> <<"rebase --abort">>]

\* the promise of installDeps: resolved by the close or the error event of the
\* child, rejected when spawn itself throws
installDeps(exit) ==
    IF exit.kind = "throw" THEN [rejected |-> TRUE, reason |-> exit.message]
    ELSE [rejected |-> FALSE,
          value |-> IF exit.kind = "error"
                    THEN [success |-> FALSE, error |-> exit.message]
                    ELSE IF exit.code = 0 THEN [success |-> TRUE]
                    ELSE [success |-> FALSE,
                          error |-> IF exit.stderr # "" THEN exit.stderr
                                    ELSE "Exit code: 1"]]

\* path.basename
basename(pieces) == pieces[Len(pieces)]

-----------------------------------------------------------------------------
(* What the environment can answer *)

Branches == {MAIN_BRANCH, "dev"}

Files == 1..(MaxFiles + 1)

\* work trees at the start: k modified files
WorkTrees == {[i \in 1..k |-> PorcelainLine(" M", i)] : k \in 0..MaxFiles}

\* the upstream remote at the start of a session: none, the expected URL, its
\* scp-like form, another repository
Remotes ==
    {<<>>, UPSTREAM_URL,
     <<"git@", "github.com", ":", "cosZone/astro-koharu", ".git">>,
     <<"https://", "github.com", "/someone/fork", ".git">>}

Repos ==
    {r \in [remote : Remotes, trackingRef : BOOLEAN, branch : Branches,
            porcelain : WorkTrees] : r.trackingRef => r.remote # <<>>}

Drifts == [ahead : 0..MaxCommits, behind : 0..MaxCommits]

\* in a session, also a longer run of incoming commits
SessionDrifts == Drifts \cup {[ahead |-> 0, behind |-> MaxCommits + 2]}

UpdateAnswers ==
    [revList : [Refs -> SessionDrifts], localVersion : {"1.0.0"},
     targetVersion : {"1.0.0", "2.0.0", ""}]

\* what the two conflict scans can list, a repeated path included
FileLists == {<<>>, <<1>>} \cup {<<1, f>> : f \in Files}

StatusLists ==
    {<<>>} \cup {<<PorcelainLine(xy, f)>> : xy \in {"UU", "AA", " M"}, f \in Files}

\* a command that succeeded leaves no unmerged path and no error text
MergeAnswers ==
    {g \in [firstOk : BOOLEAN, changed : BOOLEAN, commitOk : BOOLEAN,
            diffFiles : FileLists, statusLines : StatusLists,
            stderr : {"fatal: refusing to merge", ""}] :
        /\ g.firstOk /\ (g.changed => g.commitOk) =>
               g.diffFiles = <<>> /\ g.statusLines = <<>> /\ g.stderr = ""
        /\ ~g.firstOk => ~g.changed /\ ~g.commitOk
        /\ ~g.changed => ~g.commitOk}

InstallExits ==
    {[kind |-> "close", code |-> 0, stderr |-> ""],
     [kind |-> "close", code |-> 1, stderr |-> ""],
     [kind |-> "close", code |-> 1, stderr |-> "ERR_PNPM"],
     [kind |-> "error", message |-> "spawn pnpm ENOENT"],
     [kind |-> "throw", message |-> "spawn EINVAL"]}

BackupOutcomes ==
    {[ok |-> TRUE, backupFile |-> <<"/site/backups/", "backup-full.tar.gz">>],
     [ok |-> FALSE, message |-> "ENOSPC"]}

-----------------------------------------------------------------------------
(* UpdateApp: useReducer and the dispatch of one action *)

Error(message) == [type |-> "ERROR", error |-> message]

Stepped(from, to) == IF to.status # from.status THEN <<to.status>> ELSE <<>>

\* dispatch(action): the reducer runs, and a new state object schedules the effects
Dispatch(action) ==
    LET next == updateReducer(state, action)
    IN /\ state' = next
       /\ before' = state
       /\ dispatched' = action
       /\ path' = path \o Stepped(state, next)
       /\ effectPending' = (next # state \/ action.type = "ERROR")

RECURSIVE reduceAll(_, _)
reduceAll(s, events) ==
    IF events = <<>> THEN s
    ELSE reduceAll(updateReducer(s, Head(events)), Tail(events))

RECURSIVE stepsAll(_, _)
stepsAll(s, events) ==
    IF events = <<>> THEN <<>>
    ELSE LET next == updateReducer(s, Head(events))
         IN Stepped(s, next) \o stepsAll(next, Tail(events))

\* the events dispatched by one effect, in order; with none, the effects stay
\* scheduled as pendingIfNone says
DispatchAll(events, pendingIfNone) ==
    IF events = <<>>
    THEN /\ UNCHANGED <<state, before, dispatched, path>>
         /\ effectPending' = pendingIfNone
    ELSE LET last == events[Len(events)]
             prior == reduceAll(state, SubSeq(events, 1, Len(events) - 1))
             next == updateReducer(prior, last)
         IN /\ state' = next
            /\ before' = prior
            /\ dispatched' = last
            /\ path' = path \o stepsAll(state, events)
            /\ effectPending' = (next # state
                                 \/ \E i \in 1..Len(events) :
                                        events[i].type = "ERROR")

Running == ~completed

EffectDueOnEveryRender == Running

\* the core effect runs when status or state changed: deps [status, state]
EffectDue == Running /\ effectPending

Idle == Running /\ ~effectPending

-----------------------------------------------------------------------------
(* update-effects: statusEffects, run by the core effect of UpdateApp *)

checkingEventToleratesAddFailure(s, gitStatus, upstream) ==
    IF ~upstream.success /\ upstream.reason = "mismatch"
    THEN Error("upstream exists but points to "
               \o Concat(upstream.currentUrl) \o ", set it to "
               \o Concat(UPSTREAM_URL))
    ELSE IF ~upstream.success /\ upstream.reason = "missing" /\ s.options.checkOnly
    THEN Error("check mode does not change the repository, add upstream first")
    ELSE [type |-> "GIT_CHECKED", payload |-> gitStatus]

checkingEvent(s, gitStatus, upstream) ==
    IF ~upstream.success
    THEN IF upstream.reason = "mismatch"
         THEN Error("upstream exists but points to "
                    \o Concat(upstream.currentUrl) \o ", set it to "
                    \o Concat(UPSTREAM_URL))
         ELSE IF upstream.reason = "missing" /\ s.options.checkOnly
         THEN Error("check mode does not change the repository, add upstream first")
         ELSE Error("cannot add the upstream remote")
    ELSE [type |-> "GIT_CHECKED", payload |-> gitStatus]

statusEffectCheckingFallsThrough(s, r, revParseOk, addOk) ==
    IF ~revParseOk
    THEN [events |-> <<Error("fatal: not a git repository")>>, repo |-> r,
          calls |-> <<>>]
    ELSE LET gitStatus == checkGitStatus(r)
             upstream == ensureUpstreamRemote(r, ~s.options.checkOnly, addOk)
             checked == [type |-> "GIT_CHECKED", payload |-> gitStatus]
         IN [events |-> IF upstream.ret.success THEN <<checked>>
                        ELSE <<checkingEvent(s, gitStatus, upstream.ret), checked>>,
             repo |-> upstream.repo, calls |-> upstream.calls]

\* statusEffects.checking: the events it dispatches, and what it did to the
\* repository
statusEffectChecking(s, r, revParseOk, addOk) ==
    IF ~revParseOk
    THEN [events |-> <<Error("fatal: not a git repository")>>, repo |-> r,
          calls |-> <<>>]
    ELSE LET gitStatus == checkGitStatus(r)
             upstream == ensureUpstreamRemote(r, ~s.options.checkOnly, addOk)
         IN [events |-> <<checkingEvent(s, gitStatus, upstream.ret)>>,
             repo |-> upstream.repo, calls |-> upstream.calls]

\* the target the fetching effect hands to getUpdateInfo
fetchingTargetTag(s) == NoTag

\* statusEffects.fetching; infoOk is false when getUpdateInfo throws
statusEffectFetching(s, r, fetchOk, infoOk, git) ==
    IF s.options.checkOnly
    THEN [events |->
              IF ~hasUpstreamTrackingRef(r)
              THEN <<Error("check mode does not run git fetch, fetch upstream first")>>
              ELSE IF ~infoOk
              THEN <<Error("ENOENT: package.json")>>
              ELSE <<[type |-> "FETCHED",
                      payload |-> getUpdateInfo(r, fetchingTargetTag(s), git)]>>,
          repo |-> r, calls |-> <<>>]
    ELSE LET fetched == fetchUpstream(r, fetchOk)
         IN [events |->
                 IF ~fetched.ret
                 THEN <<Error("cannot fetch upstream, check the network")>>
                 ELSE IF ~infoOk
                 THEN <<Error("ENOENT: package.json")>>
                 ELSE <<[type |-> "FETCHED",
                         payload |-> getUpdateInfo(fetched.repo,
                                         fetchingTargetTag(s), git)]>>,
             repo |-> fetched.repo, calls |-> fetched.calls]

\* the options the merging effect hands to mergeUpstream
mergingOptions(s) == NoMergeOptions

\* statusEffects.merging
statusEffectMerging(s, r, git) ==
    LET merged == mergeUpstream(mergingOptions(s), git)
    IN [events |-> <<[type |-> "MERGED", payload |-> merged.ret]>>,
        repo |-> r, calls |-> merged.calls]

\* statusEffects.installing, when its promise settles: .then / .catch
installingEvents(promise, cancelled) ==
    IF cancelled THEN <<>>
    ELSE IF promise.rejected THEN <<Error(promise.reason)>>
    ELSE IF ~promise.value.success
    THEN <<Error("dependency install failed: " \o promise.value.error)>>
    ELSE <<[type |-> "INSTALLED"]>>

\* the core effect invokes the effect of the status and the events it
\* dispatches go through the reducer
Invoke(run) ==
    /\ repo' = run.repo
    /\ calls' = calls \o run.calls
    /\ effects' = Append(effects, [effect |-> state.status, events |-> run.events])
    /\ DispatchAll(run.events, FALSE)

EffectChecking ==
    /\ EffectDue
    /\ state.status = "checking"
    /\ \E revParseOk \in BOOLEAN, addOk \in BOOLEAN :
          Invoke(statusEffectChecking(state, repo, revParseOk, addOk))
    /\ UNCHANGED <<install, completed, exitTimer, props>>
    /\ UNCHANGED opVars

EffectFetching ==
    /\ EffectDue
    /\ state.status = "fetching"
    /\ \E fetchOk \in BOOLEAN, infoOk \in BOOLEAN, git \in UpdateAnswers :
          Invoke(statusEffectFetching(state, repo, fetchOk, infoOk, git))
    /\ UNCHANGED <<install, completed, exitTimer, props>>
    /\ UNCHANGED opVars

EffectMerging ==
    /\ EffectDue
    /\ state.status = "merging"
    /\ \E git \in MergeAnswers : Invoke(statusEffectMerging(state, repo, git))
    /\ UNCHANGED <<install, completed, exitTimer, props>>
    /\ UNCHANGED opVars

\* the installing effect starts pnpm install and returns its cleanup at once
EffectInstalling ==
    /\ EffectDue
    /\ state.status = "installing"
    /\ install' = "running"
    /\ calls' = Append(calls, "pnpm install")
    /\ effects' = Append(effects, [effect |-> state.status, events |-> <<>>])
    /\ effectPending' = FALSE
    /\ UNCHANGED <<state, before, dispatched, repo, completed, exitTimer, props,
                   path>>
    /\ UNCHANGED opVars

\* how pnpm install ended: exit code 0, or anything else
exited(exit) ==
    IF exit.kind = "close" /\ exit.code = 0 THEN "succeeded" ELSE "failed"

\* the cleanup of the installing effect sets its cancelled flag
cleanup(inst) == IF inst = "running" THEN "cancelled" ELSE inst

Settle(events, exit) ==
    /\ install' = IF install = "cancelled" THEN "discarded" ELSE exited(exit)
    /\ effects' = [effects EXCEPT ![Len(effects)].events = @ \o events]
    /\ DispatchAll(events, effectPending)

InstallSettlesIgnoresFailure ==
    /\ install \in {"running", "cancelled"}
    /\ \E exit \in InstallExits :
          Settle(IF install = "cancelled" THEN <<>> ELSE <<[type |-> "INSTALLED"]>>,
                 exit)
    /\ UNCHANGED <<repo, calls, completed, exitTimer, props>>
    /\ UNCHANGED opVars

InstallSettlesIgnoresCancellation ==
    /\ install \in {"running", "cancelled"}
    /\ \E exit \in InstallExits :
          Settle(installingEvents(installDeps(exit), FALSE), exit)
    /\ UNCHANGED <<repo, calls, completed, exitTimer, props>>
    /\ UNCHANGED opVars

\* the promise settles: .then / .catch of the installing effect
InstallSettles ==
    /\ install \in {"running", "cancelled"}
    /\ \E exit \in InstallExits :
          Settle(installingEvents(installDeps(exit), install = "cancelled"), exit)
    /\ UNCHANGED <<repo, calls, completed, exitTimer, props>>
    /\ UNCHANGED opVars

-----------------------------------------------------------------------------
(* UpdateApp: the other effects *)

\* handleComplete: without the return hint the exit timer is armed
handleComplete == exitTimer' = (exitTimer \/ ~props.showReturnHint)

autoConfirmsInDryRun(s) ==
    s.status = "preview" /\ s.options.force /\ ~s.options.checkOnly

\* the force auto-confirm applies
autoConfirms(s) ==
    s.status = "preview" /\ s.options.force /\ ~s.options.checkOnly
    /\ ~s.options.dryRun

stopsAtPreview(s) ==
    s.status = "preview" /\ (s.options.checkOnly \/ s.options.dryRun)

\* terminal statuses complete by themselves
EffectTerminal ==
    /\ EffectDue
    /\ state.status \in {"up-to-date", "done", "error"}
    /\ handleComplete
    /\ effectPending' = FALSE
    /\ UNCHANGED <<state, before, dispatched, repo, calls, install, completed,
                   props, path>>
    /\ UNCHANGED effects
    /\ UNCHANGED opVars

\* check-only and dry-run complete at preview
EffectPreviewComplete ==
    /\ EffectDue
    /\ stopsAtPreview(state)
    /\ handleComplete
    /\ effectPending' = FALSE
    /\ UNCHANGED <<state, before, dispatched, repo, calls, install, completed,
                   props, path>>
    /\ UNCHANGED effects
    /\ UNCHANGED opVars

\* force confirms the preview by itself
EffectForceConfirm ==
    /\ EffectDue
    /\ autoConfirms(state)
    /\ Dispatch([type |-> "UPDATE_CONFIRM"])
    /\ UNCHANGED <<repo, calls, install, completed, exitTimer, props>>
    /\ UNCHANGED effects
    /\ UNCHANGED opVars

\* a status with no effect of its own
EffectNone ==
    /\ EffectDue
    /\ \/ state.status \in {"dirty-warning", "backup-confirm", "conflict"}
       \/ (state.status = "preview" /\ ~stopsAtPreview(state)
           /\ ~autoConfirms(state))
    /\ effectPending' = FALSE
    /\ UNCHANGED <<state, before, dispatched, repo, calls, install, completed,
                   exitTimer, props, path>>
    /\ UNCHANGED effects
    /\ UNCHANGED opVars

-----------------------------------------------------------------------------
(* UpdateApp: the handlers of the user's input *)

asksUpdateConfirmInDryRun(s) ==
    /\ s.status = "preview"
    /\ s.updateInfo # Null
    /\ ~s.options.checkOnly
    /\ ~s.options.force

\* the confirmation prompt of preview is rendered
asksUpdateConfirm(s) ==
    /\ s.status = "preview"
    /\ s.updateInfo # Null
    /\ ~(s.options.checkOnly \/ s.options.dryRun)
    /\ ~s.options.force

handleBackupConfirmIgnoresThrow ==
    /\ Idle
    /\ state.status = "backup-confirm"
    /\ \E outcome \in BackupOutcomes :
          LET confirmed == updateReducer(state, [type |-> "BACKUP_CONFIRM"])
              second == [type |-> "BACKUP_DONE",
                         backupFile |-> IF outcome.ok
                                        THEN basename(outcome.backupFile)
                                        ELSE ""]
              next == updateReducer(confirmed, second)
          IN /\ state' = next
             /\ before' = confirmed
             /\ dispatched' = second
             /\ path' = path \o Stepped(state, confirmed) \o Stepped(confirmed, next)
    /\ calls' = Append(calls, "runBackup")
    /\ effectPending' = TRUE
    /\ UNCHANGED <<repo, install, completed, exitTimer, props>>
    /\ UNCHANGED effects
    /\ UNCHANGED opVars

\* BACKUP_CONFIRM, then runBackup, then BACKUP_DONE or ERROR, in one handler
handleBackupConfirm ==
    /\ Idle
    /\ state.status = "backup-confirm"
    /\ \E outcome \in BackupOutcomes :
          LET confirmed == updateReducer(state, [type |-> "BACKUP_CONFIRM"])
              second == IF outcome.ok
                        THEN [type |-> "BACKUP_DONE",
                              backupFile |-> basename(outcome.backupFile)]
                        ELSE Error("backup failed: " \o outcome.message)
              next == updateReducer(confirmed, second)
          IN /\ state' = next
             /\ before' = confirmed
             /\ dispatched' = second
             /\ path' = path \o Stepped(state, confirmed) \o Stepped(confirmed, next)
    /\ calls' = Append(calls, "runBackup")
    /\ effectPending' = TRUE
    /\ UNCHANGED <<repo, install, completed, exitTimer, props>>
    /\ UNCHANGED effects
    /\ UNCHANGED opVars

skipOfferedInRebase(s) == s.status = "backup-confirm"

\* the cancel of the backup prompt is the skip when not in rebase mode
skipOffered(s) == s.status = "backup-confirm" /\ ~s.options.rebase

handleBackupSkip ==
    /\ Idle
    /\ skipOffered(state)
    /\ Dispatch([type |-> "BACKUP_SKIP"])
    /\ UNCHANGED <<repo, calls, install, completed, exitTimer, props>>
    /\ UNCHANGED effects
    /\ UNCHANGED opVars

handleUpdateConfirm ==
    /\ Idle
    /\ asksUpdateConfirm(state)
    /\ Dispatch([type |-> "UPDATE_CONFIRM"])
    /\ UNCHANGED <<repo, calls, install, completed, exitTimer, props>>
    /\ UNCHANGED effects
    /\ UNCHANGED opVars

\* the cancel of the preview prompt, and of the backup prompt in rebase mode
handleUpdateCancel ==
    /\ Idle
    /\ \/ asksUpdateConfirm(state)
       \/ (state.status = "backup-confirm" /\ state.options.rebase)
    /\ completed' = TRUE
    /\ UNCHANGED <<state, before, dispatched, repo, calls, effectPending, install,
                   exitTimer, props, path>>
    /\ UNCHANGED effects
    /\ UNCHANGED opVars

\* the confirm of the conflict prompt: handleAbortRebase or handleAbortMerge
handleAbort ==
    /\ Idle
    /\ state.status = "conflict"
    /\ state.mergeResult # Null
    /\ \E ok \in BOOLEAN :
          LET isRebase == "isRebaseConflict" \in DOMAIN state.mergeResult
                          /\ state.mergeResult.isRebaseConflict
              aborted == IF isRebase THEN abortRebase(ok) ELSE abortMerge(ok)
          IN /\ calls' = calls \o aborted.calls
             /\ IF aborted.ret
                THEN /\ completed' = TRUE
                     /\ UNCHANGED <<state, before, dispatched, effectPending, path>>
                ELSE /\ Dispatch(Error(IF isRebase
                                       THEN "cannot abort the rebase, run git rebase --abort"
                                       ELSE "cannot abort the merge, run git merge --abort"))
                     /\ UNCHANGED completed
    /\ UNCHANGED <<repo, install, exitTimer, props>>
    /\ UNCHANGED effects
    /\ UNCHANGED opVars

\* the cancel of the conflict prompt
handleConflictCancel ==
    /\ Idle
    /\ state.status = "conflict"
    /\ state.mergeResult # Null
    /\ completed' = TRUE
    /\ UNCHANGED <<state, before, dispatched, repo, calls, effectPending, install,
                   exitTimer, props, path>>
    /\ UNCHANGED effects
    /\ UNCHANGED opVars

\* usePressAnyKey
pressAnyKeyActive(s) ==
    /\ \/ s.status \in {"done", "error", "up-to-date", "dirty-warning"}
       \/ stopsAtPreview(s)
    /\ props.showReturnHint

PressAnyKey ==
    /\ Idle
    /\ pressAnyKeyActive(state)
    /\ completed' = TRUE
    /\ UNCHANGED <<state, before, dispatched, repo, calls, effectPending, install,
                   exitTimer, props, path>>
    /\ UNCHANGED effects
    /\ UNCHANGED opVars

\* the timer armed by handleComplete fires after AUTO_EXIT_DELAY
ExitTimerFires ==
    /\ Idle
    /\ exitTimer
    /\ completed' = TRUE
    /\ UNCHANGED <<state, before, dispatched, repo, calls, effectPending, install,
                   exitTimer, props, path>>
    /\ UNCHANGED effects
    /\ UNCHANGED opVars

-----------------------------------------------------------------------------
(* One session of UpdateApp *)

Init ==
    /\ props \in [showReturnHint : BOOLEAN, options : UpdateOptions]
    /\ state = createInitialState(props.options)
    /\ before = state
    /\ dispatched = NoAction
    /\ repo \in Repos
    /\ calls = <<>>
    /\ effectPending = TRUE
    /\ install = "none"
    /\ completed = FALSE
    /\ exitTimer = FALSE
    /\ path = <<"checking">>
    /\ effects = <<>>
    /\ called = NoCall
    /\ returned = Null

Next ==
    \/ EffectChecking
    \/ EffectFetching
    \/ EffectMerging
    \/ EffectInstalling
    \/ InstallSettles
    \/ EffectTerminal
    \/ EffectPreviewComplete
    \/ EffectForceConfirm
    \/ EffectNone
    \/ handleBackupConfirm
    \/ handleBackupSkip
    \/ handleUpdateConfirm
    \/ handleUpdateCancel
    \/ handleAbort
    \/ handleConflictCancel
    \/ PressAnyKey
    \/ ExitTimerFires

Spec == Init /\ [][Next]_vars

\* React runs the effects that are due
RunEffects ==
    \/ EffectChecking
    \/ EffectFetching
    \/ EffectMerging
    \/ EffectInstalling
    \/ EffectTerminal
    \/ EffectPreviewComplete
    \/ EffectForceConfirm
    \/ EffectNone

\* the user answers the prompt that is shown
AnswerPrompt ==
    \/ handleBackupConfirm
    \/ handleBackupSkip
    \/ handleUpdateConfirm
    \/ handleUpdateCancel
    \/ handleAbort
    \/ handleConflictCancel

\* effects that are due run, pnpm install ends, a prompt gets an answer, a key
\* is pressed when the return hint is shown, an armed timer fires
Fairness ==
    /\ WF_vars(RunEffects)
    /\ WF_vars(InstallSettles)
    /\ WF_vars(AnswerPrompt)
    /\ WF_vars(PressAnyKey)
    /\ WF_vars(ExitTimerFires)

SpecLive == Init /\ [][Next]_vars /\ Fairness

-----------------------------------------------------------------------------
(* updateReducer as a pure function: every state, every action *)

GitStatusSamples == {checkGitStatus(r) : r \in Repos}

\* the answers tried on the operations alone: the local version may differ from
\* the tag's
UpdateAnswerSamples ==
    [revList : [Refs -> Drifts], localVersion : {"1.0.0", "2.0.0"},
     targetVersion : {"1.0.0", "2.0.0", ""}]

TagSamples == TargetTags \cup {<<"v", "1.0.0">>}

UpdateInfoSamples ==
    {getUpdateInfo(r, tag, git) :
        r \in {q \in Repos : q.branch = MAIN_BRANCH /\ q.porcelain = <<>>
                             /\ q.remote \in {<<>>, UPSTREAM_URL}},
        tag \in TagSamples, git \in UpdateAnswerSamples}

MergeResultSamples ==
    {mergeUpstream(o, git).ret :
        o \in [targetTag : TargetTags, isDowngrade : BOOLEAN, rebase : BOOLEAN],
        git \in MergeAnswers}
    \cup {[success |-> TRUE, hasConflict |-> TRUE, conflictFiles |-> <<1>>]}
    \cup {[success |-> FALSE, hasConflict |-> FALSE, conflictFiles |-> <<>>]}

ErrorSamples == {"fatal: not a git repository", ""}

BackupFileSamples == {"backup-full.tar.gz"}

ReducerActions ==
    {[type |-> "GIT_CHECKED", payload |-> g] : g \in GitStatusSamples}
    \cup {[type |-> "FETCHED", payload |-> u] : u \in UpdateInfoSamples}
    \cup {[type |-> "MERGED", payload |-> m] : m \in MergeResultSamples}
    \cup {[type |-> "BACKUP_DONE", backupFile |-> f] : f \in BackupFileSamples}
    \cup {[type |-> t] : t \in {"BACKUP_CONFIRM", "BACKUP_SKIP", "UPDATE_CONFIRM",
                                "INSTALLED"}}
    \cup {Error(e) : e \in ErrorSamples}

\* the data a state carries beside its status and options: none yet, or all set
EmptyData == createInitialState(CHOOSE o \in UpdateOptions : TRUE)

FullData ==
    [EmptyData EXCEPT
        !.gitStatus = checkGitStatus([remote |-> UPSTREAM_URL, trackingRef |-> TRUE,
                                      branch |-> "dev", porcelain |-> <<>>]),
        !.updateInfo = getUpdateInfo([remote |-> UPSTREAM_URL, trackingRef |-> TRUE,
                                      branch |-> "dev", porcelain |-> <<>>], NoTag,
                                     [revList |->
                                          [ref \in Refs |->
                                              [ahead |-> 0, behind |-> 1]],
                                      localVersion |-> "1.0.0",
                                      targetVersion |-> "2.0.0"]),
        !.mergeResult = [success |-> TRUE, hasConflict |-> FALSE,
                         conflictFiles |-> <<>>],
        !.backupFile = "backup-full.tar.gz",
        !.error = "fatal: not a git repository",
        !.branchWarning = branchWarningText("dev")]

ReducerStates ==
    {[d EXCEPT !.status = st, !.options = o] :
        d \in {EmptyData, FullData}, st \in UpdateStatus, o \in UpdateOptions}

InitReducer ==
    /\ state \in ReducerStates
    /\ before = state
    /\ dispatched = NoAction
    /\ repo = [remote |-> <<>>, trackingRef |-> FALSE, branch |-> MAIN_BRANCH,
               porcelain |-> <<>>]
    /\ calls = <<>>
    /\ effectPending = FALSE
    /\ install = "none"
    /\ completed = FALSE
    /\ exitTimer = FALSE
    /\ props = [showReturnHint |-> FALSE, options |-> state.options]
    /\ path = <<>>
    /\ effects = <<>>
    /\ called = NoCall
    /\ returned = Null

\* one call of updateReducer
ApplyReducer ==
    /\ dispatched = NoAction
    /\ \E action \in ReducerActions :
          /\ state' = updateReducer(state, action)
          /\ before' = state
          /\ dispatched' = action
    /\ UNCHANGED <<repo, calls, effectPending, install, completed, exitTimer,
                   props, path>>
    /\ UNCHANGED effects
    /\ UNCHANGED opVars

NextReducer == ApplyReducer

SpecReducer == InitReducer /\ [][NextReducer]_vars

-----------------------------------------------------------------------------
(* The installing effect on its own: its promise and its cleanup *)

InstallingStates ==
    {s \in ReducerStates : s.status = "installing" /\ s.mergeResult # Null}

InitInstalling ==
    /\ state \in InstallingStates
    /\ before = state
    /\ dispatched = NoAction
    /\ repo = [remote |-> UPSTREAM_URL, trackingRef |-> TRUE,
               branch |-> MAIN_BRANCH, porcelain |-> <<>>]
    /\ calls = <<>>
    /\ effectPending = TRUE
    /\ install = "none"
    /\ completed = FALSE
    /\ exitTimer = FALSE
    /\ props \in [showReturnHint : BOOLEAN, options : {state.options}]
    /\ path = <<"installing">>
    /\ effects = <<>>
    /\ called = NoCall
    /\ returned = Null

\* an ERROR event reaches the reducer while pnpm install runs: the state changes
\* and React runs the cleanup of the installing effect
ErrorWhileInstalling ==
    /\ Running
    /\ state.status = "installing"
    /\ install = "running"
    /\ Dispatch(Error("unexpected failure"))
    /\ install' = cleanup(install)
    /\ UNCHANGED <<repo, calls, completed, exitTimer, props, effects>>
    /\ UNCHANGED opVars

\* UpdateApp is unmounted while pnpm install runs: React runs the cleanup
UnmountWhileInstalling ==
    /\ Running
    /\ state.status = "installing"
    /\ install = "running"
    /\ completed' = TRUE
    /\ install' = cleanup(install)
    /\ UNCHANGED <<state, before, dispatched, repo, calls, effectPending,
                   exitTimer, props, path, effects>>
    /\ UNCHANGED opVars

NextInstalling ==
    \/ EffectInstalling
    \/ InstallSettles
    \/ ErrorWhileInstalling
    \/ UnmountWhileInstalling

SpecInstalling == InitInstalling /\ [][NextInstalling]_vars

-----------------------------------------------------------------------------
(* The git operations as pure functions of the repository and of git's answers *)

\* the remotes tried on the operations alone: also the URL with credentials and
\* without the .git suffix
RemoteSamples ==
    Remotes
    \cup {<<"https://", "user:token@", "github.com", "/cosZone/astro-koharu">>}

RepoSamples ==
    {r \in [remote : RemoteSamples, trackingRef : BOOLEAN,
            branch : {MAIN_BRANCH}, porcelain : {<<>>}] :
        r.trackingRef => r.remote # <<>>}

MergeOptionSamples ==
    [targetTag : TagSamples, isDowngrade : BOOLEAN, rebase : BOOLEAN]

InitOperations ==
    /\ state = EmptyData
    /\ before = state
    /\ dispatched = NoAction
    /\ repo = [remote |-> <<>>, trackingRef |-> FALSE, branch |-> MAIN_BRANCH,
               porcelain |-> <<>>]
    /\ calls = <<>>
    /\ effectPending = FALSE
    /\ install = "none"
    /\ completed = FALSE
    /\ exitTimer = FALSE
    /\ props = [showReturnHint |-> FALSE, options |-> state.options]
    /\ path = <<>>
    /\ effects = <<>>
    /\ called = NoCall
    /\ returned = Null

\* one call of ensureUpstreamRemote
CallEnsureUpstreamRemote ==
    /\ called = NoCall
    /\ \E r \in RepoSamples, allowAdd \in BOOLEAN, addOk \in BOOLEAN :
          /\ called' = [op |-> "ensureUpstreamRemote", repo |-> r,
                      allowAdd |-> allowAdd, addOk |-> addOk]
          /\ returned' = ensureUpstreamRemote(r, allowAdd, addOk)
    /\ UNCHANGED <<state, before, dispatched, repo, calls, effectPending,
                   install, completed, exitTimer, props, path, effects>>

\* one call of getUpdateInfo
CallGetUpdateInfo ==
    /\ called = NoCall
    /\ \E r \in RepoSamples, tag \in TagSamples, git \in UpdateAnswerSamples :
          /\ called' = [op |-> "getUpdateInfo", repo |-> r, targetTag |-> tag,
                      git |-> git]
          /\ returned' = getUpdateInfo(r, tag, git)
    /\ UNCHANGED <<state, before, dispatched, repo, calls, effectPending,
                   install, completed, exitTimer, props, path, effects>>

\* one call of mergeUpstream
CallMergeUpstream ==
    /\ called = NoCall
    /\ \E options \in MergeOptionSamples, git \in MergeAnswers :
          /\ called' = [op |-> "mergeUpstream", options |-> options, git |-> git]
          /\ returned' = mergeUpstream(options, git)
    /\ UNCHANGED <<state, before, dispatched, repo, calls, effectPending,
                   install, completed, exitTimer, props, path, effects>>

\* what git diff --name-only --diff-filter=U can list
DiffSamples ==
    {<<>>} \cup {<<f>> : f \in Files} \cup {<<f, g>> : f \in Files, g \in Files}

StatusLineSamples ==
    {PorcelainLine(xy, f) : xy \in {"UU", "AA", "DD", "DU", " M", "??"}, f \in Files}

\* what git status --porcelain can list
StatusSamples ==
    {<<>>} \cup {<<l>> : l \in StatusLineSamples}
           \cup {<<l, m>> : l \in StatusLineSamples, m \in StatusLineSamples}

\* one call of getConflictFiles
CallGetConflictFiles ==
    /\ called = NoCall
    /\ \E diffFiles \in DiffSamples, statusLines \in StatusSamples :
          /\ called' = [op |-> "getConflictFiles", diffFiles |-> diffFiles,
                        statusLines |-> statusLines]
          /\ returned' = getConflictFiles(diffFiles, statusLines)
    /\ UNCHANGED <<state, before, dispatched, repo, calls, effectPending,
                   install, completed, exitTimer, props, path, effects>>

NextOperations ==
    \/ CallEnsureUpstreamRemote
    \/ CallGetUpdateInfo
    \/ CallMergeUpstream
    \/ CallGetConflictFiles

SpecOperations == InitOperations /\ [][NextOperations]_vars

-----------------------------------------------------------------------------
(* Properties *)

InPath(status) == \E i \in 1..Len(path) : path[i] = status

Issued(commands) == \E i \in 1..Len(calls) : calls[i] \in commands

\* an action was dispatched to a state of this status
DispatchedIn(status, type) ==
    dispatched # NoAction /\ before.status = status /\ dispatched.type = type

\* the action each status waits for
Expected(status) ==
    CASE status = "checking" -> {"GIT_CHECKED"}
      [] status = "fetching" -> {"FETCHED"}
      [] status = "backup-confirm" -> {"BACKUP_CONFIRM", "BACKUP_SKIP"}
      [] status = "backing-up" -> {"BACKUP_DONE"}
      [] status = "preview" -> {"UPDATE_CONFIRM"}
      [] status = "merging" -> {"MERGED"}
      [] status = "installing" -> {"INSTALLED"}
      [] OTHER -> {}

\* C1, as stated: once the status is terminal, no dispatched action, the ERROR
\* of a failed abort included, changes the status.
C1_TerminalAbsorbing ==
    (dispatched # NoAction /\ before.status \in TerminalStatus)
        => state.status = before.status

\* C1, amended: in a terminal status every action but ERROR leaves the state as
\* it is, and an ERROR (the one a failed abort dispatches from conflict) moves
\* the session to error.
C1_TerminalLeftOnlyByError ==
    /\ (dispatched # NoAction /\ before.status \in TerminalStatus)
           => IF dispatched.type = "ERROR" THEN state.status = "error"
              ELSE state = before
    /\ state.status \in TerminalStatus
           => \A action \in ReducerActions :
                 IF action.type = "ERROR"
                 THEN updateReducer(state, action).status = "error"
                 ELSE updateReducer(state, action) = state

C1_Witness ==
    /\ DispatchedIn("conflict", "ERROR")
    /\ state.status = "error"
    /\ Issued({"merge --abort"})

\* C2: an ERROR action applied to any state, terminal or not, gives status error
\* with the action's message and every other field as before.
C2_ErrorFromEveryState ==
    (dispatched # NoAction /\ dispatched.type = "ERROR")
        => /\ state.status = "error"
           /\ state.error = dispatched.error
           /\ state = [before EXCEPT !.status = "error",
                                     !.error = dispatched.error]

C2_Witness ==
    /\ DispatchedIn("done", "ERROR")
    /\ state.status = "error"
    /\ state.error = dispatched.error
    /\ state.backupFile = before.backupFile /\ state.backupFile # ""

\* C3: an action that is neither ERROR nor the one the status waits for
\* returns the state unchanged.
C3_UnexpectedActionIgnored ==
    (/\ dispatched # NoAction
     /\ dispatched.type # "ERROR"
     /\ dispatched.type \notin Expected(before.status))
        => state = before

C3_Witness ==
    /\ DispatchedIn("installing", "MERGED")
    /\ dispatched.payload.hasConflict
    /\ state = before

\* C4: in rebase mode a FETCHED with changes leads from fetching to
\* backup-confirm, whatever skipBackup and force are.
C4_RebaseGoesToBackupConfirm ==
    (/\ DispatchedIn("fetching", "FETCHED")
     /\ before.options.rebase
     /\ hasChanges(dispatched.payload))
        => state.status = "backup-confirm"

C4_Witness ==
    /\ DispatchedIn("fetching", "FETCHED")
    /\ before.options.rebase /\ before.options.skipBackup /\ before.options.force
    /\ dispatched.payload.behindCount > 0
    /\ state.status = "backup-confirm"

\* C5: a rebase session reaches preview, and so merging, only after backing-up
\* and with the backup file recorded.
C5_RebaseMergesOnlyAfterBackup ==
    (state.options.rebase /\ (InPath("preview") \/ InPath("merging")))
        => /\ InPath("backing-up")
           /\ state.backupFile # ""
           /\ Issued({"runBackup"})

C5_Witness ==
    /\ state.options.rebase /\ state.options.skipBackup /\ state.options.force
    /\ state.status = "merging"
    /\ state.backupFile # ""

\* C6: a check-only or dry-run session never merges: it issues no
\* UPDATE_CONFIRM and gets no further than preview.
C6_CheckOnlyAndDryRunStopAtPreview ==
    (state.options.checkOnly \/ state.options.dryRun)
        => /\ ~InPath("merging")
           /\ state.status \notin {"merging", "installing", "done", "conflict"}
           /\ dispatched.type # "UPDATE_CONFIRM"
           /\ ~autoConfirms(state)
           /\ ~asksUpdateConfirm(state)

C6_Witness ==
    /\ state.options.dryRun /\ state.options.force /\ ~state.options.checkOnly
    /\ state.status = "preview"
    /\ ~effectPending

\* C7: a check-only session issues neither the fetch nor the remote add; with
\* no remote it ends in error at checking.
C7_CheckOnlyNeverFetchesNorAdds ==
    state.options.checkOnly
        => /\ ~Issued({"fetch", "remote add"})
           /\ repo.remote = <<>> => state.status \in {"checking", "error"}
           /\ repo.remote = <<>> => ~InPath("fetching")

C7_Witness ==
    /\ state.options.checkOnly
    /\ state.status = "preview"
    /\ calls = <<>>

MergeCommands == {"merge --squash", "rebase", "checkout", "commit"}

\* C8, as stated: a dry-run session issues no mutating operation at all: no
\* remote add, no fetch, no merge, rebase, checkout or commit, no install.
C8_DryRunIssuesNothing ==
    state.options.dryRun
        => ~Issued(MergeCommands \cup {"remote add", "fetch", "pnpm install"})

\* C8, amended: a dry-run session issues no merge, rebase, checkout or commit
\* and no install; the remote add and the fetch are issued as in any session
\* that is not check-only.
C8_DryRunNeverMergesNorInstalls ==
    state.options.dryRun
        => /\ ~Issued(MergeCommands \cup {"pnpm install"})
           /\ state.options.checkOnly => ~Issued({"remote add", "fetch"})
           /\ (~state.options.checkOnly /\ InPath("fetching")
               /\ state.status # "fetching") => Issued({"fetch"})

C8_Witness ==
    /\ state.options.dryRun /\ ~state.options.checkOnly
    /\ state.status = "preview"
    /\ calls = <<"remote add", "fetch">>

\* C9: GIT_CHECKED with a dirty tree and no force leads to dirty-warning, and
\* the session then never reaches fetching or any later status; with a clean
\* tree or with force it leads to fetching.
C9_DirtyTreeStopsAtDirtyWarning ==
    /\ DispatchedIn("checking", "GIT_CHECKED")
           => state.status = IF ~dispatched.payload.isClean /\ ~before.options.force
                             THEN "dirty-warning" ELSE "fetching"
    /\ InPath("dirty-warning")
           => /\ path = <<"checking", "dirty-warning">>
              /\ ~state.gitStatus.isClean /\ ~state.options.force
    /\ (repo.porcelain # <<>> /\ ~state.options.force) => ~InPath("fetching")

C9_Witness ==
    /\ state.status = "dirty-warning"
    /\ repo.porcelain # <<>>
    /\ completed

\* C10: a branch other than main does not stop the session: the reducer
\* records the warning and goes to fetching or dirty-warning as it would on
\* main, never to error.
C10_OtherBranchOnlyWarns ==
    (DispatchedIn("checking", "GIT_CHECKED")
     /\ dispatched.payload.currentBranch # MAIN_BRANCH)
        => /\ state.branchWarning # ""
           /\ state.status \in {"fetching", "dirty-warning"}
           /\ state.error = before.error

C10_Witness ==
    /\ repo.branch = "dev"
    /\ state.branchWarning # ""
    /\ state.status = "preview"

\* C11: FETCHED in fetching leads to up-to-date exactly when the summary has no
\* changes, where it has changes when the versions do not match (equal and known)
\* and it is behind or a downgrade with local commits; at zero drift it is
\* up-to-date, and a downgrade with local commits and differing versions is not.
C11_UpToDateIffNoChanges ==
    DispatchedIn("fetching", "FETCHED") =>
        LET u == dispatched.payload
            sameVersion == u.currentVersion = u.latestVersion
                           /\ u.latestVersion # "unknown"
            changes == ~sameVersion
                       /\ (u.behindCount > 0
                           \/ (u.isDowngrade /\ u.aheadCount > 0))
        IN /\ (state.status = "up-to-date") <=> ~changes
           /\ state.status = "up-to-date" => state.updateInfo = u
           /\ u.behindCount = 0 /\ u.aheadCount = 0 /\ ~u.isDowngrade =>
                  state.status = "up-to-date"
           /\ u.isDowngrade /\ u.aheadCount > 0
              /\ u.currentVersion # u.latestVersion =>
                  state.status # "up-to-date"

C11_Witness ==
    /\ DispatchedIn("fetching", "FETCHED")
    /\ dispatched.payload.isDowngrade
    /\ dispatched.payload.aheadCount > 0
    /\ dispatched.payload.behindCount = 0
    /\ dispatched.payload.currentVersion # dispatched.payload.latestVersion
    /\ state.status \in {"preview", "backup-confirm"}

\* the summary asks for an update: the versions differ or are unknown, and there
\* are incoming commits or a downgrade over local commits
SummaryHasChanges(u) ==
    /\ ~(u.currentVersion = u.latestVersion /\ u.latestVersion # "unknown")
    /\ (u.behindCount > 0 \/ (u.isDowngrade /\ u.aheadCount > 0))

\* C12: in a session without rebase, FETCHED with changes leads to preview when
\* skipBackup or force is set and to backup-confirm when neither is, with the
\* payload stored unchanged as updateInfo; with skipBackup or force the session
\* never visits backup-confirm or backing-up and backupFile stays empty.
C12_SkipBackupGoesStraightToPreview ==
    /\ DispatchedIn("fetching", "FETCHED") /\ ~before.options.rebase
       /\ SummaryHasChanges(dispatched.payload) =>
           /\ state.status = IF before.options.skipBackup \/ before.options.force
                             THEN "preview" ELSE "backup-confirm"
           /\ state.updateInfo = dispatched.payload
    /\ ~state.options.rebase
       /\ (state.options.skipBackup \/ state.options.force) =>
           /\ ~InPath("backup-confirm")
           /\ ~InPath("backing-up")
           /\ state.backupFile = ""

\* force with skipBackup on a dirty tree, three incoming commits
C12_Witness ==
    /\ DispatchedIn("fetching", "FETCHED")
    /\ state.options.force /\ state.options.skipBackup /\ ~state.options.rebase
    /\ ~state.gitStatus.isClean
    /\ path = <<"checking", "fetching", "preview">>
    /\ Len(state.updateInfo.commits) = MaxCommits + 2
    /\ state.updateInfo = dispatched.payload
    /\ state.backupFile = ""

\* C13: MERGED in merging leads to conflict with the outcome stored when the
\* outcome has a conflict, whatever its success flag; otherwise to error with
\* the outcome's message (or the default one) when it did not succeed; otherwise
\* to installing with the outcome stored. Nothing else of the state changes.
C13_MergedOutcomeDecidesStatus ==
    DispatchedIn("merging", "MERGED") =>
        LET outcome == dispatched.payload
            message == IF "error" \in DOMAIN outcome /\ outcome.error # ""
                       THEN outcome.error ELSE "merge failed"
        IN IF outcome.hasConflict
           THEN state = [before EXCEPT !.status = "conflict",
                                       !.mergeResult = outcome]
           ELSE IF ~outcome.success
           THEN state = [before EXCEPT !.status = "error", !.error = message]
           ELSE state = [before EXCEPT !.status = "installing",
                                       !.mergeResult = outcome]

\* a squash merge that left two unmerged files
C13_Witness ==
    /\ DispatchedIn("merging", "MERGED")
    /\ dispatched.payload.hasConflict
    /\ ~dispatched.payload.success
    /\ Len(dispatched.payload.conflictFiles) = 2
    /\ ~dispatched.payload.isRebaseConflict
    /\ state.status = "conflict"
    /\ state.mergeResult = dispatched.payload

\* the strategies of mergeUpstream, by their first git command
Strategies == {"rebase", "checkout", "merge --squash"}

\* C14, as stated: the strategy executed on entering merging is the one the
\* options and the drift summary select: rebase when options.rebase is set, the
\* checkout of a downgrade when the summary is a downgrade to a given tag, the
\* squash merge otherwise; and exactly one strategy is executed.
C14_StrategySelectedByOptions ==
    DispatchedIn("merging", "MERGED") =>
        LET selected == IF before.options.rebase THEN "rebase"
                        ELSE IF before.updateInfo.isDowngrade
                                /\ before.options.targetTag # NoTag
                        THEN "checkout"
                        ELSE "merge --squash"
            executed == {i \in 1..Len(calls) : calls[i] \in Strategies}
        IN /\ Cardinality(executed) = 1
           /\ \A i \in executed : calls[i] = selected

\* C15, as stated: the summary delivered in FETCHED is the one getUpdateInfo
\* computes against the session's target, the normalized options.targetTag when
\* given and upstream/main otherwise; so with a tag that HEAD has passed (local
\* commits, nothing incoming) the summary is a downgrade.
C15_SummaryAgainstResolvedTarget ==
    DispatchedIn("fetching", "FETCHED") =>
        /\ dispatched.payload \in
               {getUpdateInfo(repo, before.options.targetTag, git) :
                   git \in UpdateAnswers}
        /\ before.options.targetTag # NoTag
           /\ dispatched.payload.aheadCount > 0
           /\ dispatched.payload.behindCount = 0 =>
               dispatched.payload.isDowngrade

\* C16: getUpdateInfo reports a downgrade exactly when a target tag is supplied,
\* HEAD is ahead of it and not behind it; without a tag it never does, whatever
\* the counts; and without an upstream remote it returns hasUpstream = false,
\* zero counts, empty commit lists and no downgrade.
C16_DowngradeIffTagAheadNotBehind ==
    called.op = "getUpdateInfo" =>
        LET tagged == called.targetTag # NoTag
            drift == called.git.revList[IF tagged THEN "tag" ELSE "upstream/main"]
        IN IF called.repo.remote = <<>>
           THEN /\ ~returned.hasUpstream
                /\ returned.aheadCount = 0 /\ returned.behindCount = 0
                /\ returned.commits = <<>> /\ returned.localCommits = <<>>
                /\ ~returned.isDowngrade
           ELSE /\ returned.hasUpstream
                /\ returned.aheadCount = drift.ahead
                /\ returned.behindCount = drift.behind
                /\ returned.isDowngrade <=>
                       (tagged /\ drift.ahead > 0 /\ drift.behind = 0)
                /\ ~tagged => ~returned.isDowngrade

C16_Witness ==
    /\ called.op = "getUpdateInfo"
    /\ called.targetTag = <<"1.0.0">>
    /\ called.repo.remote = UPSTREAM_URL
    /\ called.git.revList["tag"] = [ahead |-> 1, behind |-> 0]
    /\ called.git.revList["upstream/main"] = [ahead |-> 0, behind |-> 1]
    /\ returned.isDowngrade
    /\ Len(returned.commits) = 1

C18_DowngradeFailureIsErrorNotConflict ==
    /\ called.op = "mergeUpstream"
    /\ ~called.options.rebase
    /\ called.options.isDowngrade /\ called.options.targetTag # NoTag
    /\ \/ ~called.git.firstOk
       \/ (called.git.changed /\ ~called.git.commitOk)
    => /\ returned.calls[1] = "checkout"
       /\ ~returned.ret.success
       /\ ~returned.ret.hasConflict
       /\ returned.ret.conflictFiles = <<>>
       /\ returned.ret.error # ""
       /\ \A s \in ReducerStates :
              s.status = "merging" =>
                  LET next == updateReducer(s, [type |-> "MERGED",
                                                payload |-> returned.ret])
                  IN next.status = "error" /\ next.error = returned.ret.error

\* the commit of the downgrade fails while two paths are unmerged
C18_Witness ==
    /\ called.op = "mergeUpstream"
    /\ ~called.options.rebase
    /\ called.options.isDowngrade /\ called.options.targetTag = <<"1.0.0">>
    /\ called.git.firstOk /\ called.git.changed /\ ~called.git.commitOk
    /\ Len(getConflictFiles(called.git.diffFiles, called.git.statusLines)) = 2
    /\ returned.calls = <<"checkout", "commit">>
    /\ ~returned.ret.hasConflict
    /\ returned.ret.conflictFiles = <<>>

\* C19, as stated: whenever the rebase strategy was the one executed and it
\* fails leaving at least one unmerged file, the outcome has hasConflict = true
\* and isRebaseConflict = true, for every value of the other merge options,
\* isDowngrade included.
C19_RebaseFailureIsRebaseConflict ==
    /\ called.op = "mergeUpstream"
    /\ called.options.rebase
    /\ ~called.git.firstOk
    /\ Len(getConflictFiles(called.git.diffFiles, called.git.statusLines)) >= 1
    => /\ returned.calls = <<"rebase">>
       /\ returned.ret.hasConflict
       /\ "isRebaseConflict" \in DOMAIN returned.ret
       /\ returned.ret.isRebaseConflict

\* what the session shows for each way the install can fail
InstallFailureTexts ==
    {"dependency install failed: Exit code: 1",
     "dependency install failed: ERR_PNPM",
     "dependency install failed: spawn pnpm ENOENT",
     "spawn EINVAL"}

\* C20: in installing, an install that succeeds leads to done, and one that
\* fails (non-zero exit, spawn error, rejected promise) leads to error with the
\* failure text; done is reached only from installing by INSTALLED, and so only
\* after a MERGED outcome with success = true and hasConflict = false.
C20_InstallDecidesDoneOrError ==
    /\ install = "succeeded" => state.status = "done"
    /\ install = "failed" =>
           state.status = "error" /\ state.error \in InstallFailureTexts
    /\ DispatchedIn("installing", "INSTALLED") => state.status = "done"
    /\ state.status = "done" =>
           /\ DispatchedIn("installing", "INSTALLED")
           /\ install = "succeeded"
           /\ Len(path) >= 3
           /\ SubSeq(path, Len(path) - 2, Len(path))
                  = <<"merging", "installing", "done">>
           /\ state.mergeResult.success
           /\ ~state.mergeResult.hasConflict

\* pnpm install exits with a non-zero code and text on stderr
C20_Witness ==
    /\ install = "failed"
    /\ DispatchedIn("installing", "ERROR")
    /\ state.status = "error"
    /\ state.error = "dependency install failed: ERR_PNPM"
    /\ state.mergeResult.success

\* C21: after the user confirms the backup, a runBackup that returns takes the
\* session to preview with backupFile set to the name of the archive; a
\* runBackup that throws is caught and dispatched as ERROR with the backup
\* failure prefix, the session ends in error, and it reaches neither preview
\* nor merging.
C21_BackupReturnsOrThrows ==
    /\ DispatchedIn("backing-up", "BACKUP_DONE") =>
           /\ state.status = "preview"
           /\ state.backupFile = "backup-full.tar.gz"
    /\ DispatchedIn("backing-up", "ERROR") =>
           /\ state.status = "error"
           /\ state.error = "backup failed: ENOSPC"
    /\ Issued({"runBackup"}) =>
           \/ InPath("preview") /\ state.backupFile = "backup-full.tar.gz"
           \/ /\ state.status = "error"
              /\ state.error = "backup failed: ENOSPC"
              /\ state.backupFile = ""
              /\ path = <<"checking", "fetching", "backup-confirm", "backing-up",
                          "error">>
              /\ ~InPath("preview") /\ ~InPath("merging")

C21_Witness ==
    /\ DispatchedIn("backing-up", "ERROR")
    /\ Issued({"runBackup"})
    /\ state.status = "error"
    /\ state.error = "backup failed: ENOSPC"
    /\ completed

\* the session rests at preview after a check-only or dry-run
RestsAtPreview == stopsAtPreview(state)

\* C22, as stated: when effects run, the install ends and the user answers every
\* prompt, every session eventually reaches a terminal status or, in check-only
\* or dry-run mode, rests at preview.
C22_EventuallyTerminalOrPreview ==
    <>(state.status \in TerminalStatus \/ RestsAtPreview)

\* the user declined the prompt of backup-confirm (rebase) or of preview, which
\* ends the session where it is
Declined == completed /\ state.status \in {"backup-confirm", "preview"}

\* C22, amended: under the same fairness every session eventually reaches a
\* terminal status, rests at preview in check-only or dry-run mode, or is ended
\* by the user declining a prompt; so none stays forever in checking, fetching,
\* backing-up, merging or installing.
C22_EventuallyTerminalPreviewOrDeclined ==
    <>(state.status \in TerminalStatus \/ RestsAtPreview \/ Declined)

C22_Witness ==
    /\ Declined
    /\ state.status = "preview"
    /\ ~RestsAtPreview
    /\ ~InPath("merging")

\* C23: when the session leaves installing before the install promise settles,
\* the cleanup of the effect sets its cancelled flag and the later settling of
\* the install dispatches nothing: no INSTALLED and no ERROR of that install
\* reaches the reducer.
C23_CancelledInstallDispatchesNothing ==
    /\ state.status # "installing" /\ install # "none" =>
           install \in {"cancelled", "discarded", "succeeded", "failed"}
    /\ install \in {"cancelled", "discarded"} =>
           /\ effects[Len(effects)] = [effect |-> "installing", events |-> <<>>]
           /\ dispatched \in {NoAction, Error("unexpected failure")}
           /\ state.status \in {"installing", "error"}
           /\ state.status = "error" => state.error = "unexpected failure"
           /\ state.status = "installing" => completed

\* the install ended after an ERROR had taken the session out of installing
C23_Witness ==
    /\ install = "discarded"
    /\ state.status = "error"
    /\ state.error = "unexpected failure"
    /\ effects[Len(effects)].events = <<>>

\* the events an effect may dispatch
EffectEvents(effect) ==
    CASE effect = "checking" -> {"GIT_CHECKED", "ERROR"}
      [] effect = "fetching" -> {"FETCHED", "ERROR"}
      [] effect = "merging" -> {"MERGED"}
      [] effect = "installing" -> {"INSTALLED", "ERROR"}
      [] OTHER -> {}

\* C24: every invocation of the checking, fetching, merging and installing
\* effects dispatches exactly one event, of a type of that effect, on every
\* path; the installing effect has dispatched none while its install runs and
\* exactly one once it has settled, unless it was cancelled.
C24_OneEventPerEffect ==
    \A i \in 1..Len(effects) :
        LET e == effects[i]
            unsettled == /\ e.effect = "installing"
                         /\ i = Len(effects)
                         /\ install \in {"running", "cancelled", "discarded"}
        IN /\ e.effect \in {"checking", "fetching", "merging", "installing"}
           /\ Len(e.events) = IF unsettled THEN 0 ELSE 1
           /\ \A k \in 1..Len(e.events) : e.events[k].type \in EffectEvents(e.effect)

\* all four effects have run and each has dispatched its event
C24_Witness ==
    /\ Len(effects) = 4
    /\ effects[4].effect = "installing"
    /\ Len(effects[4].events) = 1
    /\ effects[1].events[1].type = "GIT_CHECKED"
    /\ install \in {"succeeded", "failed"}

\* C25: an effect is invoked only when the reducer has settled on a changed
\* state, it is the effect of the current status, and none is invoked while
\* pnpm install is pending; while the install is pending the session stays in
\* installing, no further effect is due and no command (remote add, fetch,
\* merge, rebase, checkout) is issued.
C25_OneEffectOfCurrentStatus ==
    [][/\ Len(effects') > Len(effects) =>
              /\ effectPending
              /\ install # "running"
              /\ Len(effects') = Len(effects) + 1
              /\ effects'[Len(effects')].effect = state.status
       /\ install = "running" =>
              /\ state.status = "installing"
              /\ ~effectPending
              /\ effects[Len(effects)].effect = "installing"
              /\ calls' = calls]_vars

\* pnpm install is pending after the three effects before it have run
C25_Witness ==
    /\ install = "running"
    /\ Len(effects) = 4
    /\ effects[3].effect = "merging"
    /\ \E i \in 1..Len(calls) : calls[i] \in MergeCommands

\* the place of a status in the status graph; the terminal statuses share the last
Rank(status) ==
    CASE status = "checking" -> 1
      [] status = "fetching" -> 2
      [] status = "backup-confirm" -> 3
      [] status = "backing-up" -> 4
      [] status = "preview" -> 5
      [] status = "merging" -> 6
      [] status = "installing" -> 7
      [] OTHER -> 8

Times(command) == Cardinality({i \in 1..Len(calls) : calls[i] = command})

\* C26: within one session every status is entered at most once and the
\* statuses follow checking < fetching < backup-confirm < backing-up < preview
\* < merging < installing < terminal; each of the four effects is invoked at
\* most once; and fetch, the merge strategy and pnpm install are each issued
\* at most once.
C26_EveryStatusOnce ==
    /\ \A i, j \in 1..Len(path) :
           i < j => /\ path[i] # path[j]
                    /\ Rank(path[i]) <= Rank(path[j])
                    /\ Rank(path[i]) = Rank(path[j]) =>
                           path[i] \in TerminalStatus /\ path[j] \in TerminalStatus
    /\ \A i, j \in 1..Len(effects) :
           i < j => effects[i].effect # effects[j].effect
    /\ Times("fetch") <= 1
    /\ Cardinality({i \in 1..Len(calls) : calls[i] \in Strategies}) <= 1
    /\ Times("pnpm install") <= 1

\* a session that went through every status of the longest path
C26_Witness ==
    /\ path = <<"checking", "fetching", "backup-confirm", "backing-up", "preview",
                "merging", "installing", "done">>
    /\ Len(effects) = 4
    /\ Times("fetch") = 1
    /\ Times("pnpm install") = 1

\* the remote is registered with the URL of the upstream repository
UpstreamRegistered ==
    /\ repo.remote # <<>>
    /\ normalizeRemoteUrl(repo.remote) = normalizeRemoteUrl(UPSTREAM_URL)

\* the message of the checking effect for the remote it found, unless git
\* itself failed before the remote was looked at
RemoteErrorText ==
    IF repo.remote # <<>>
    THEN "upstream exists but points to " \o Concat(repo.remote)
         \o ", set it to " \o Concat(UPSTREAM_URL)
    ELSE IF state.options.checkOnly
    THEN "check mode does not change the repository, add upstream first"
    ELSE "cannot add the upstream remote"

\* C27: fetching is reached only after ensureUpstreamRemote succeeded in the
\* checking effect. When the remote has another URL, is missing under
\* check-only or cannot be added, GIT_CHECKED is never dispatched, the checking
\* effect dispatches exactly one ERROR with the message of that case, and the
\* session goes from checking to error without any fetch.
C27_FetchingOnlyAfterRemoteEnsured ==
    /\ InPath("fetching") =>
           /\ effects[1].events[1].type = "GIT_CHECKED"
           /\ UpstreamRegistered
    /\ Len(effects) >= 1 /\ ~UpstreamRegistered =>
           /\ effects = <<[effect |-> "checking", events |-> effects[1].events]>>
           /\ Len(effects[1].events) = 1
           /\ effects[1].events[1].type = "ERROR"
           /\ effects[1].events[1].error
                  \in {RemoteErrorText, "fatal: not a git repository"}
           /\ calls # <<>> =>
                  /\ calls = <<"remote add">>
                  /\ effects[1].events[1].error = "cannot add the upstream remote"
           /\ path = <<"checking", "error">>
           /\ state.status = "error"
           /\ state.error = effects[1].events[1].error
           /\ ~Issued({"fetch"})

\* the remote could not be added: one ERROR, and the session is in error
C27_Witness ==
    /\ repo.remote = <<>>
    /\ ~state.options.checkOnly
    /\ calls = <<"remote add">>
    /\ effects = <<[effect |-> "checking",
                    events |-> <<Error("cannot add the upstream remote")>>]>>
    /\ path = <<"checking", "error">>

\* the paths of the status lines whose code marks an unmerged path
UnmergedPaths(statusLines) ==
    LET unmerged == SelectSeq(statusLines,
            LAMBDA line : line.xy \in {"UU", "AU", "UA", "DU", "UD", "AA", "DD"})
    IN [i \in 1..Len(unmerged) |-> unmerged[i].path]

Elements(xs) == {xs[i] : i \in 1..Len(xs)}

\* C28, as stated: the list returned by getConflictFiles is the de-duplicated
\* union of the paths of the diff scan and of the unmerged paths of the status
\* scan, in order of first discovery.
C28_ConflictFilesAreUnion ==
    called.op = "getConflictFiles" =>
        returned = Dedupe(called.diffFiles \o UnmergedPaths(called.statusLines))

\* C28, amended: the list is the paths of the diff scan when it lists any, and
\* the unmerged paths of the status scan only when the diff scan lists none;
\* each path once, in order of first discovery. It is empty on a clean tree, a
\* path in both scans appears once, and it is the union of the two scans
\* whenever the status scan names no path the diff scan misses.
C28_ConflictFilesDiffElseStatus ==
    called.op = "getConflictFiles" =>
        LET diffFiles == called.diffFiles
            statusFiles == UnmergedPaths(called.statusLines)
        IN /\ \A i, j \in 1..Len(returned) : i < j => returned[i] # returned[j]
           /\ Elements(returned) =
                  IF diffFiles # <<>> THEN Elements(diffFiles)
                  ELSE Elements(statusFiles)
           /\ \A i, j \in 1..Len(returned) :
                  i < j =>
                      LET scan == IF diffFiles # <<>> THEN diffFiles ELSE statusFiles
                          first(f) == CHOOSE k \in 1..Len(scan) :
                                          /\ scan[k] = f
                                          /\ \A m \in 1..(k - 1) : scan[m] # f
                      IN first(returned[i]) < first(returned[j])
           /\ diffFiles = <<>> /\ statusFiles = <<>> => returned = <<>>
           /\ diffFiles = <<>> \/ Elements(statusFiles) \subseteq Elements(diffFiles) =>
                  returned = Dedupe(diffFiles \o statusFiles)

\* a path listed by both scans, with another line that is not a conflict
C28_Witness ==
    /\ called.op = "getConflictFiles"
    /\ called.diffFiles = <<1, 1>>
    /\ called.statusLines = <<PorcelainLine("AA", 1), PorcelainLine(" M", 2)>>
    /\ returned = <<1>>

\* C29: in every state of a session the data agree with the status: gitStatus
\* is set in every status from fetching onward (in error too, once fetching was
\* passed) and in dirty-warning; updateInfo is set in up-to-date,
\* backup-confirm, backing-up, preview, merging, installing, done and conflict;
\* in conflict the merge result has a conflict; in installing and done it is a
\* success without conflict; backupFile is set only if backing-up was visited;
\* and the options are those the session was created with.
C29_DataAgreesWithStatus ==
    /\ state.status \in {"fetching", "backup-confirm", "backing-up", "preview",
                         "merging", "installing", "done", "conflict",
                         "up-to-date", "dirty-warning"}
           => state.gitStatus # Null
    /\ InPath("fetching") => state.gitStatus # Null
    /\ state.status \in {"up-to-date", "backup-confirm", "backing-up", "preview",
                         "merging", "installing", "done", "conflict"}
           => state.updateInfo # Null
    /\ state.status = "conflict" =>
           state.mergeResult # Null /\ state.mergeResult.hasConflict
    /\ state.status \in {"installing", "done"} =>
           /\ state.mergeResult # Null
           /\ state.mergeResult.success
           /\ ~state.mergeResult.hasConflict
    /\ state.backupFile # "" => InPath("backing-up")
    /\ state.options = props.options

\* a session that made a backup and ended in done
C29_Witness ==
    /\ state.status = "done"
    /\ state.backupFile # ""
    /\ state.mergeResult.success
    /\ state.updateInfo # Null
    /\ state.options.rebase

\* C30, as stated: for every terminal status and for both values of
\* showReturnHint, once the status is reached UpdateApp eventually invokes
\* onComplete: after the exit delay, or after a key press or a prompt answer.
C30_TerminalEventuallyCompletes ==
    (state.status \in TerminalStatus) ~> completed

====
